---- MODULE Spec2Model ----
(***************************************************************************)
(* Product provenance ledger (ProductDetails.go): the chaincode's four     *)
(* transaction handlers over the ledger's key-value state.                 *)
(*                                                                         *)
(* Bytes stored on the ledger are modelled as documents: a JSON document   *)
(* [enc |-> "json", doc |-> J] where J is a tagged JSON value (object,     *)
(* array, number), or an opaque blob that is not JSON.  Go structs are     *)
(* records with the Go field names; JSON objects are records with the      *)
(* json tag names, so Marshal/Unmarshal are real conversions.              *)
(*                                                                         *)
(* Spec: every handler is one atomic transaction, from an empty ledger.    *)
(* SpecStored: the same handlers from a ledger that already holds a record *)
(* and arbitrary bytes under its history key.                              *)
(* SpecInterleaved: LogProductMovement split between its read and its      *)
(* write, run by two callers.                                              *)
(***************************************************************************)
EXTENDS Integers, Sequences, FiniteSets, TLC

\* ---------------------------------------------------------------- bounds
MaxProducts == 2
MaxWrites == 4

\* ------------------------------------------------- ProductState (iota)
PRODUCT_REGISTERED == 0
QUALITY_ASSURANCE == 1
PRODUCT_TRANSIT == 2
PRODUCT_IN_INVENTORY == 3
PRODUCT_SOLD == 4
PRODUCT_RECALLED == 5
CONSUMPTION == 6
PENDING == 7
VALIDATING == 8
PUBLISHING == 9

ProductState == PRODUCT_REGISTERED .. PUBLISHING

\* ProductState is a Go int: a caller can pass any integer as the target of
\* UpdateProductState, also one that names no constant of the enumeration.
TargetStates == ProductState \cup {PUBLISHING + 1}

\* ------------------------------------------------------- input domains
Names == {"Widget"}
Descriptions == {"blue"}
ManufactureDates == {20240101}
BatchNumbers == {"B-7"}
Locations == {"Warehouse A", "Dock 4"}
TxTimestamps == {1700000000, 1700000060}
ProductIDs == 1 .. MaxProducts

\* Arguments of the calls in which a stub call is made to fail: the outcome
\* of such a call does not depend on them, one or two values suffice.
FaultTargets == {PRODUCT_TRANSIT, PRODUCT_SOLD}
FaultLocations == {"Warehouse A"}
FaultTimestamps == {1700000000}

\* ------------------------------------------------------------- errors
OK == "nil"
NotFoundError == "NotFoundError"
DecodeError == "DecodeError"
InvalidTransitionError == "InvalidTransitionError"
StoreReadError == "StoreReadError"
StoreWriteError == "StoreWriteError"

\* The zero value of a Go Product struct.
ZeroProduct ==
    [ID |-> 0, Name |-> "", Description |-> "", ManufactureDate |-> 0,
     BatchNumber |-> "", State |-> PRODUCT_REGISTERED]

\* A nil byte slice (GetState of an absent key).
NilBytes == [enc |-> "nil", doc |-> 0]

\* ---------------------------------------------------------------- keys
ProductKey(productID) == "PRODUCT-" \o ToString(productID)
HistoryKey(productID) == "PRODUCT-" \o ToString(productID) \o "-HISTORY"
CounterKey == "PRODUCT-COUNTER"

\* ------------------------------------------------------ encoding/json
MarshalProduct(product) ==
    [enc |-> "json",
     doc |-> [t |-> "object",
              v |-> [id |-> product.ID,
                     name |-> product.Name,
                     description |-> product.Description,
                     manufactureDate |-> product.ManufactureDate,
                     batchNumber |-> product.BatchNumber,
                     state |-> product.State]]]

UnmarshalProduct(bytes) ==
    IF bytes.enc = "json" /\ bytes.doc.t = "object"
    THEN [err |-> OK,
          product |-> [ID |-> bytes.doc.v.id,
                       Name |-> bytes.doc.v.name,
                       Description |-> bytes.doc.v.description,
                       ManufactureDate |-> bytes.doc.v.manufactureDate,
                       BatchNumber |-> bytes.doc.v.batchNumber,
                       State |-> bytes.doc.v.state]]
    ELSE [err |-> DecodeError, product |-> ZeroProduct]

MarshalHistoryEntry(h) ==
    [timestamp |-> h.Timestamp, action |-> h.Action,
     location |-> h.Location, state |-> h.State]

UnmarshalHistoryEntry(j) ==
    [Timestamp |-> j.timestamp, Action |-> j.action,
     Location |-> j.location, State |-> j.state]

MarshalHistories(productHistories) ==
    [enc |-> "json",
     doc |-> [t |-> "array",
              v |-> [i \in 1 .. Len(productHistories) |->
                        MarshalHistoryEntry(productHistories[i])]]]

UnmarshalHistories(bytes) ==
    IF bytes.enc = "json" /\ bytes.doc.t = "array"
    THEN [err |-> OK,
          productHistories |-> [i \in 1 .. Len(bytes.doc.v) |->
                                   UnmarshalHistoryEntry(bytes.doc.v[i])]]
    ELSE [err |-> DecodeError, productHistories |-> << >>]

\* The conversion []byte(product) of AddProduct.  It is not json.Marshal:
\* depending on the build it yields the record's JSON text or a blob that
\* json.Unmarshal rejects.
ProductBytes(product, conv) ==
    IF conv = "json" THEN MarshalProduct(product)
    ELSE [enc |-> "opaque", doc |-> product]

\* ------------------------------------------------------ ledger stub
\* failing: the stub call returns an error.
GetState(s, key, failing) ==
    IF failing THEN [err |-> StoreReadError, value |-> NilBytes]
    ELSE IF key \in DOMAIN s THEN [err |-> OK, value |-> s[key]]
    ELSE [err |-> OK, value |-> NilBytes]

PutState(s, key, value, failing) ==
    IF failing THEN [err |-> StoreWriteError, store |-> s]
    ELSE [err |-> OK,
          store |-> [k \in DOMAIN s \cup {key} |->
                        IF k = key THEN value ELSE s[k]]]

\* ------------------------------------------------ identity allocator
\* fault: index of the stub call of the transaction that fails (0: none).
generateNextProductID(s, fault) ==
    LET r == GetState(s, CounterKey, fault = 1) IN
    IF r.err # OK THEN [err |-> r.err, store |-> s, id |-> 0]
    ELSE LET counter == IF r.value = NilBytes THEN 0 ELSE r.value.doc.v
             id == counter + 1
             w == PutState(s, CounterKey,
                           [enc |-> "json", doc |-> [t |-> "number", v |-> id]],
                           fault = 2)
         IN  IF w.err # OK THEN [err |-> w.err, store |-> s, id |-> 0]
             ELSE [err |-> OK, store |-> w.store, id |-> id]

\* ---------------------------------------------------------- handlers
\* Variant: the record key is formatted from the wrong uint64 argument.
AddProduct_WrongKey(s, name, description, manufacturedDate, batchNumber, conv, fault) ==
    LET g == generateNextProductID(s, fault) IN
    IF g.err # OK THEN [err |-> g.err, store |-> g.store, id |-> 0]
    ELSE LET nextProductID == g.id
             product == [ID |-> nextProductID,
                         Name |-> name,
                         Description |-> description,
                         ManufactureDate |-> manufacturedDate,
                         BatchNumber |-> batchNumber,
                         State |-> ZeroProduct.State]
             w == PutState(g.store, ProductKey(manufacturedDate),
                           ProductBytes(product, conv), fault = 3)
         IN  IF w.err # OK
             THEN [err |-> w.err, store |-> w.store, id |-> 0]
             ELSE [err |-> OK, store |-> w.store, id |-> nextProductID]

\* Variant: the record is stored under the id before the allocated one.
AddProduct_StaleKey(s, name, description, manufacturedDate, batchNumber, conv, fault) ==
    LET g == generateNextProductID(s, fault) IN
    IF g.err # OK THEN [err |-> g.err, store |-> g.store, id |-> 0]
    ELSE LET nextProductID == g.id
             product == [ID |-> nextProductID,
                         Name |-> name,
                         Description |-> description,
                         ManufactureDate |-> manufacturedDate,
                         BatchNumber |-> batchNumber,
                         State |-> ZeroProduct.State]
             w == PutState(g.store,
                           ProductKey(IF nextProductID > 1
                                      THEN nextProductID - 1
                                      ELSE nextProductID),
                           ProductBytes(product, conv), fault = 3)
         IN  IF w.err # OK
             THEN [err |-> w.err, store |-> w.store, id |-> 0]
             ELSE [err |-> OK, store |-> w.store, id |-> nextProductID]

AddProduct(s, name, description, manufacturedDate, batchNumber, conv, fault) ==
    LET g == generateNextProductID(s, fault) IN
    IF g.err # OK THEN [err |-> g.err, store |-> g.store, id |-> 0]
    ELSE LET nextProductID == g.id
             product == [ID |-> nextProductID,
                         Name |-> name,
                         Description |-> description,
                         ManufactureDate |-> manufacturedDate,
                         BatchNumber |-> batchNumber,
                         State |-> ZeroProduct.State]
             w == PutState(g.store, ProductKey(nextProductID),
                           ProductBytes(product, conv), fault = 3)
         IN  IF w.err # OK
             THEN [err |-> w.err, store |-> w.store, id |-> 0]
             ELSE [err |-> OK, store |-> w.store, id |-> nextProductID]

\* Variant: the nil check of the bytes read is missing.
RetrieveProductDetails_NoNilCheck(s, productID, callFails) ==
    LET r == GetState(s, ProductKey(productID), callFails) IN
    IF r.err # OK THEN [err |-> r.err, product |-> ZeroProduct]
    ELSE UnmarshalProduct(r.value)

\* callFails: the GetState call of this retrieval returns an error.
RetrieveProductDetails(s, productID, callFails) ==
    LET r == GetState(s, ProductKey(productID), callFails) IN
    IF r.err # OK THEN [err |-> r.err, product |-> ZeroProduct]
    ELSE IF r.value = NilBytes
    THEN [err |-> NotFoundError, product |-> ZeroProduct]
    ELSE UnmarshalProduct(r.value)

\* Variant: the guard names the wrong target constant.
UpdateProductState_WrongTarget(s, productID, currentState, fault) ==
    LET r == RetrieveProductDetails(s, productID, fault = 1) IN
    IF r.err # OK THEN [err |-> r.err, store |-> s]
    ELSE IF r.product.State = PRODUCT_REGISTERED
            /\ currentState > PRODUCT_TRANSIT
    THEN [err |-> InvalidTransitionError, store |-> s]
    ELSE LET product == [r.product EXCEPT !.State = currentState]
             productBytes == MarshalProduct(product)
         IN  PutState(s, ProductKey(productID), productBytes, fault = 2)

\* Variant: a fuller table that never lets a record return to REGISTERED.
UpdateProductState_NoReturn(s, productID, currentState, fault) ==
    LET r == RetrieveProductDetails(s, productID, fault = 1) IN
    IF r.err # OK THEN [err |-> r.err, store |-> s]
    ELSE IF \/ r.product.State = PRODUCT_REGISTERED
               /\ currentState # PRODUCT_TRANSIT
            \/ currentState = PRODUCT_REGISTERED
    THEN [err |-> InvalidTransitionError, store |-> s]
    ELSE LET product == [r.product EXCEPT !.State = currentState]
             productBytes == MarshalProduct(product)
         IN  PutState(s, ProductKey(productID), productBytes, fault = 2)

\* Variant: the transition also records a history entry.
UpdateProductState_LogsHistory(s, productID, currentState, fault) ==
    LET r == RetrieveProductDetails(s, productID, fault = 1) IN
    IF r.err # OK THEN [err |-> r.err, store |-> s]
    ELSE IF r.product.State = PRODUCT_REGISTERED
            /\ currentState # PRODUCT_TRANSIT
    THEN [err |-> InvalidTransitionError, store |-> s]
    ELSE LET product == [r.product EXCEPT !.State = currentState]
             w == PutState(s, ProductKey(productID), MarshalProduct(product),
                           fault = 2)
             old == IF HistoryKey(productID) \in DOMAIN s
                    THEN UnmarshalHistories(s[HistoryKey(productID)]).productHistories
                    ELSE << >>
         IN  IF w.err # OK THEN w
             ELSE PutState(w.store, HistoryKey(productID),
                           MarshalHistories(Append(old,
                               [Timestamp |-> 0, Action |-> "Transition",
                                Location |-> "", State |-> currentState])),
                           FALSE)

\* Variant: the record is rebuilt from its id and the new state only.
UpdateProductState_DropsFields(s, productID, currentState, fault) ==
    LET r == RetrieveProductDetails(s, productID, fault = 1) IN
    IF r.err # OK THEN [err |-> r.err, store |-> s]
    ELSE IF r.product.State = PRODUCT_REGISTERED
            /\ currentState # PRODUCT_TRANSIT
    THEN [err |-> InvalidTransitionError, store |-> s]
    ELSE LET product == [ZeroProduct EXCEPT !.ID = productID,
                                            !.State = currentState]
             productBytes == MarshalProduct(product)
         IN  PutState(s, ProductKey(productID), productBytes, fault = 2)

\* Variant: no transition policy at all.
UpdateProductState_NoGuard(s, productID, currentState, fault) ==
    LET r == RetrieveProductDetails(s, productID, fault = 1) IN
    IF r.err # OK THEN [err |-> r.err, store |-> s]
    ELSE LET product == [r.product EXCEPT !.State = currentState]
             productBytes == MarshalProduct(product)
         IN  PutState(s, ProductKey(productID), productBytes, fault = 2)

UpdateProductState(s, productID, currentState, fault) ==
    LET r == RetrieveProductDetails(s, productID, fault = 1) IN
    IF r.err # OK THEN [err |-> r.err, store |-> s]
    ELSE IF r.product.State = PRODUCT_REGISTERED
            /\ currentState # PRODUCT_TRANSIT
    THEN [err |-> InvalidTransitionError, store |-> s]
    ELSE LET product == [r.product EXCEPT !.State = currentState]
             productBytes == MarshalProduct(product)
         IN  PutState(s, ProductKey(productID), productBytes, fault = 2)

\* Variant: the new entry is put in front of the existing ones.
LogProductMovement_Prepend(s, productID, newLocation, txTimestamp, fault) ==
    LET r == RetrieveProductDetails(s, productID, fault = 1) IN
    IF r.err # OK THEN [err |-> r.err, store |-> s]
    ELSE LET productHistory == [Timestamp |-> txTimestamp,
                                Action |-> "Movement",
                                Location |-> newLocation,
                                State |-> r.product.State]
             historyKey == HistoryKey(productID)
             e == GetState(s, historyKey, fault = 2)
         IN  IF e.err # OK THEN [err |-> e.err, store |-> s]
             ELSE LET u == IF e.value # NilBytes
                           THEN UnmarshalHistories(e.value)
                           ELSE [err |-> OK, productHistories |-> << >>]
                  IN  IF u.err # OK THEN [err |-> u.err, store |-> s]
                      ELSE PutState(s, historyKey,
                                    MarshalHistories(<<productHistory>>
                                                     \o u.productHistories),
                                    fault = 3)

\* Variant: the existing history is not read back before the write.
LogProductMovement_Overwrite(s, productID, newLocation, txTimestamp, fault) ==
    LET r == RetrieveProductDetails(s, productID, fault = 1) IN
    IF r.err # OK THEN [err |-> r.err, store |-> s]
    ELSE LET productHistory == [Timestamp |-> txTimestamp,
                                Action |-> "Movement",
                                Location |-> newLocation,
                                State |-> r.product.State]
             historyKey == HistoryKey(productID)
             e == GetState(s, historyKey, fault = 2)
         IN  IF e.err # OK THEN [err |-> e.err, store |-> s]
             ELSE PutState(s, historyKey,
                           MarshalHistories(<<productHistory>>), fault = 3)

\* Variant: an existing entry is written twice when the history is rewritten.
LogProductMovement_Duplicate(s, productID, newLocation, txTimestamp, fault) ==
    LET r == RetrieveProductDetails(s, productID, fault = 1) IN
    IF r.err # OK THEN [err |-> r.err, store |-> s]
    ELSE LET productHistory == [Timestamp |-> txTimestamp,
                                Action |-> "Movement",
                                Location |-> newLocation,
                                State |-> r.product.State]
             historyKey == HistoryKey(productID)
             e == GetState(s, historyKey, fault = 2)
         IN  IF e.err # OK THEN [err |-> e.err, store |-> s]
             ELSE LET u == IF e.value # NilBytes
                           THEN UnmarshalHistories(e.value)
                           ELSE [err |-> OK, productHistories |-> << >>]
                  IN  IF u.err # OK THEN [err |-> u.err, store |-> s]
                      ELSE PutState(s, historyKey,
                                    MarshalHistories(
                                        Append(u.productHistories
                                                   \o u.productHistories,
                                               productHistory)),
                                    fault = 3)

\* Variant: the error of the record retrieval is not checked.
LogProductMovement_NoRecordCheck(s, productID, newLocation, txTimestamp, fault) ==
    LET r == RetrieveProductDetails(s, productID, fault = 1)
        productHistory == [Timestamp |-> txTimestamp,
                           Action |-> "Movement",
                           Location |-> newLocation,
                           State |-> r.product.State]
        historyKey == HistoryKey(productID)
        e == GetState(s, historyKey, fault = 2)
    IN  IF e.err # OK THEN [err |-> e.err, store |-> s]
        ELSE LET u == IF e.value # NilBytes
                      THEN UnmarshalHistories(e.value)
                      ELSE [err |-> OK, productHistories |-> << >>]
             IN  IF u.err # OK THEN [err |-> u.err, store |-> s]
                 ELSE PutState(s, historyKey,
                               MarshalHistories(Append(u.productHistories,
                                                       productHistory)),
                               fault = 3)

\* Variant: a history that does not decode is taken to be empty.
LogProductMovement_IgnoreDecode(s, productID, newLocation, txTimestamp, fault) ==
    LET r == RetrieveProductDetails(s, productID, fault = 1) IN
    IF r.err # OK THEN [err |-> r.err, store |-> s]
    ELSE LET productHistory == [Timestamp |-> txTimestamp,
                                Action |-> "Movement",
                                Location |-> newLocation,
                                State |-> r.product.State]
             historyKey == HistoryKey(productID)
             e == GetState(s, historyKey, fault = 2)
         IN  IF e.err # OK THEN [err |-> e.err, store |-> s]
             ELSE LET u == IF e.value # NilBytes
                           THEN UnmarshalHistories(e.value)
                           ELSE [err |-> OK, productHistories |-> << >>]
                  IN  PutState(s, historyKey,
                               MarshalHistories(Append(u.productHistories,
                                                       productHistory)),
                               fault = 3)

\* Variant: the entry keeps the zero timestamp of the struct.
LogProductMovement_NoTimestamp(s, productID, newLocation, txTimestamp, fault) ==
    LET r == RetrieveProductDetails(s, productID, fault = 1) IN
    IF r.err # OK THEN [err |-> r.err, store |-> s]
    ELSE LET productHistory == [Timestamp |-> 0,
                                Action |-> "Movement",
                                Location |-> newLocation,
                                State |-> r.product.State]
             historyKey == HistoryKey(productID)
             e == GetState(s, historyKey, fault = 2)
         IN  IF e.err # OK THEN [err |-> e.err, store |-> s]
             ELSE LET u == IF e.value # NilBytes
                           THEN UnmarshalHistories(e.value)
                           ELSE [err |-> OK, productHistories |-> << >>]
                  IN  IF u.err # OK THEN [err |-> u.err, store |-> s]
                      ELSE PutState(s, historyKey,
                                    MarshalHistories(Append(u.productHistories,
                                                            productHistory)),
                                    fault = 3)

\* The stored history is unmarshalled twice into the same slice (lines 176
\* and 182); the second call rebuilds the slice from the same bytes, so one
\* decode gives the value the code appends to.
LogProductMovement(s, productID, newLocation, txTimestamp, fault) ==
    LET r == RetrieveProductDetails(s, productID, fault = 1) IN
    IF r.err # OK THEN [err |-> r.err, store |-> s]
    ELSE LET productHistory == [Timestamp |-> txTimestamp,
                                Action |-> "Movement",
                                Location |-> newLocation,
                                State |-> r.product.State]
             historyKey == HistoryKey(productID)
             e == GetState(s, historyKey, fault = 2)
         IN  IF e.err # OK THEN [err |-> e.err, store |-> s]
             ELSE LET u == IF e.value # NilBytes
                           THEN UnmarshalHistories(e.value)
                           ELSE [err |-> OK, productHistories |-> << >>]
                  IN  IF u.err # OK THEN [err |-> u.err, store |-> s]
                      ELSE LET productHistories ==
                                   Append(u.productHistories, productHistory)
                               updatedHistoryBytes ==
                                   MarshalHistories(productHistories)
                           IN  PutState(s, historyKey, updatedHistoryBytes,
                                        fault = 3)

\* LogProductMovement up to the marshalling of the updated history (lines
\* 152-195): what the call has read and what it is about to write.
LogProductMovementPrepare(s, productID, newLocation, txTimestamp, fault) ==
    LET r == RetrieveProductDetails(s, productID, fault = 1)
        none == [err |-> r.err, historyKey |-> "", existingHistoryBytes |-> NilBytes, updatedHistoryBytes |-> NilBytes, state |-> r.product.State]
    IN
    IF r.err # OK THEN none
    ELSE LET productHistory == [Timestamp |-> txTimestamp,
                                Action |-> "Movement",
                                Location |-> newLocation,
                                State |-> r.product.State]
             historyKey == HistoryKey(productID)
             e == GetState(s, historyKey, fault = 2)
         IN  IF e.err # OK THEN [none EXCEPT !.err = e.err]
             ELSE LET u == IF e.value # NilBytes
                           THEN UnmarshalHistories(e.value)
                           ELSE [err |-> OK, productHistories |-> << >>]
                  IN  IF u.err # OK THEN [none EXCEPT !.err = u.err]
                      ELSE [err |-> OK,
                            historyKey |-> historyKey,
                            existingHistoryBytes |-> e.value,
                            updatedHistoryBytes |->
                                MarshalHistories(Append(u.productHistories,
                                                        productHistory)),
                            state |-> r.product.State]

\* Variant: the write is refused when the key no longer holds what was read.
LogProductMovementWrite_Checked(s, historyKey, existingHistoryBytes, updatedHistoryBytes, fault) ==
    IF GetState(s, historyKey, FALSE).value # existingHistoryBytes
    THEN [err |-> StoreWriteError, store |-> s]
    ELSE PutState(s, historyKey, updatedHistoryBytes, fault = 3)

\* The final PutState of LogProductMovement (lines 197-203).  What was read
\* before (existingHistoryBytes) plays no part in it.
LogProductMovementWrite(s, historyKey, existingHistoryBytes, updatedHistoryBytes, fault) ==
    PutState(s, historyKey, updatedHistoryBytes, fault = 3)


\* ---------------------------------------------------------------- state
VARIABLES
    store,        \* the ledger's world state: key -> bytes
    conv,         \* what []byte(product) yields in this build
    last,         \* the last transaction: operation, arguments, outcome
    assigned,     \* ids assigned by successful AddProduct calls, in order
    idLost,       \* some failed AddProduct call has left the counter advanced
    fresh,        \* ids registered and not transitioned since
    moves,        \* per id: the successful LogProductMovement calls, in order
    writes,       \* number of transactions that changed the store
    registered,   \* per id: the arguments of the AddProduct call that made it
    wasTransit,   \* ids whose record has been read back in state TRANSIT
    pending       \* per caller: a LogProductMovement between read and write

vars == <<store, conv, last, assigned, idLost, fresh, moves, writes,
          registered, wasTransit, pending>>

\* Concurrent callers of LogProductMovement, and the location each reports.
Callers == {"a", "b"}
CallerLocation == [c \in Callers |-> IF c = "a" THEN "Warehouse A" ELSE "Dock 4"]

NoPending == [active |-> FALSE, id |-> 0, location |-> "", state |-> 0,
              historyKey |-> "", existingHistoryBytes |-> NilBytes,
              updatedHistoryBytes |-> NilBytes]

NoInput == [name |-> "", description |-> "", manufactureDate |-> 0,
            batchNumber |-> ""]

NoCall == [op |-> "none", id |-> 0, input |-> NoInput, target |-> 0,
           location |-> "", timestamp |-> 0, fault |-> 0, err |-> OK,
           product |-> ZeroProduct]

\* The value of the identity counter (absent is read as zero).
Counter(s) == IF CounterKey \in DOMAIN s THEN s[CounterKey].doc.v ELSE 0

\* The history sequence stored for an id (empty when the key is absent).
History(s, productID) ==
    IF HistoryKey(productID) \in DOMAIN s
    THEN UnmarshalHistories(s[HistoryKey(productID)]).productHistories
    ELSE << >>

Init ==
    /\ store = << >>
    /\ conv \in {"json", "opaque"}
    /\ last = NoCall
    /\ assigned = << >>
    /\ idLost = FALSE
    /\ fresh = {}
    /\ moves = [i \in ProductIDs |-> << >>]
    /\ writes = 0
    /\ registered = [i \in 1 .. (MaxProducts + 1) |-> NoInput]
    /\ wasTransit = {}
    /\ pending = [c \in Callers |-> NoPending]

\* The ids whose record reads back in state TRANSIT.
InTransit(s) ==
    {i \in ProductIDs :
        /\ RetrieveProductDetails(s, i, FALSE).err = OK
        /\ RetrieveProductDetails(s, i, FALSE).product.State = PRODUCT_TRANSIT}

Register ==
    \E name \in Names, description \in Descriptions,
       manufacturedDate \in ManufactureDates, batchNumber \in BatchNumbers,
       fault \in 0 .. 3 :
        /\ Counter(store) < MaxProducts
        /\ writes < MaxWrites
        /\ LET r == AddProduct(store, name, description, manufacturedDate,
                               batchNumber, conv, fault)
           IN  /\ store' = r.store
               /\ last' = [NoCall EXCEPT
                             !.op = "register", !.id = r.id,
                             !.input = [name |-> name,
                                        description |-> description,
                                        manufactureDate |-> manufacturedDate,
                                        batchNumber |-> batchNumber],
                             !.fault = fault, !.err = r.err]
               /\ assigned' = IF r.err = OK THEN Append(assigned, r.id)
                              ELSE assigned
               /\ idLost' = (idLost \/ (r.err # OK /\ r.store # store))
               /\ fresh' = IF r.err = OK THEN fresh \cup {r.id} ELSE fresh
               /\ writes' = IF r.store # store THEN writes + 1 ELSE writes
               /\ registered' = IF r.err = OK
                                THEN [registered EXCEPT ![r.id] =
                                        [name |-> name,
                                         description |-> description,
                                         manufactureDate |-> manufacturedDate,
                                         batchNumber |-> batchNumber]]
                                ELSE registered
               /\ wasTransit' = wasTransit \cup InTransit(r.store)
        /\ UNCHANGED <<conv, moves, pending>>

GetRecord ==
    \E productID \in ProductIDs, fault \in 0 .. 1 :
        /\ LET r == RetrieveProductDetails(store, productID, fault = 1)
           IN  last' = [NoCall EXCEPT
                          !.op = "getRecord", !.id = productID,
                          !.fault = fault, !.err = r.err,
                          !.product = r.product]
        /\ UNCHANGED <<store, conv, assigned, idLost, fresh, moves,
                       writes, registered, wasTransit, pending>>

Transition ==
    \E productID \in ProductIDs, fault \in 0 .. 2 :
      \E currentState \in (IF fault = 0 THEN TargetStates ELSE FaultTargets) :
        /\ writes < MaxWrites
        /\ LET r == UpdateProductState(store, productID, currentState, fault)
           IN  /\ store' = r.store
               /\ last' = [NoCall EXCEPT
                             !.op = "transition", !.id = productID,
                             !.target = currentState,
                             !.fault = fault, !.err = r.err]
               /\ writes' = IF r.store # store THEN writes + 1 ELSE writes
               /\ fresh' = IF r.err = OK THEN fresh \ {productID} ELSE fresh
               /\ wasTransit' = wasTransit \cup InTransit(r.store)
        /\ UNCHANGED <<conv, assigned, idLost, moves, registered, pending>>

AppendMovement ==
    \E productID \in ProductIDs, fault \in 0 .. 3 :
      \E newLocation \in (IF fault = 0 THEN Locations ELSE FaultLocations),
         txTimestamp \in (IF fault = 0 THEN TxTimestamps ELSE FaultTimestamps) :
        /\ writes < MaxWrites
        /\ LET r == LogProductMovement(store, productID, newLocation,
                                       txTimestamp, fault)
               before == RetrieveProductDetails(store, productID, FALSE)
           IN  /\ store' = r.store
               /\ last' = [NoCall EXCEPT
                             !.op = "appendMovement", !.id = productID,
                             !.location = newLocation,
                             !.timestamp = txTimestamp,
                             !.fault = fault, !.err = r.err]
               /\ moves' = IF r.err = OK
                           THEN [moves EXCEPT ![productID] =
                                    Append(@, [location |-> newLocation,
                                               state |-> before.product.State])]
                           ELSE moves
               /\ writes' = IF r.store # store THEN writes + 1 ELSE writes
               /\ wasTransit' = wasTransit \cup InTransit(r.store)
        /\ UNCHANGED <<conv, assigned, idLost, fresh, registered, pending>>

Next == Register \/ GetRecord \/ Transition \/ AppendMovement

Spec == Init /\ [][Next]_vars

\* ------------------------------------------- without the host's atomicity
\* LogProductMovement run as two steps, so that the calls of two callers can
\* interleave between the read of the history key and the write-back.
BeginAppend ==
    \E c \in Callers, productID \in ProductIDs,
       txTimestamp \in FaultTimestamps :
      LET newLocation == CallerLocation[c] IN
        /\ ~pending[c].active
        /\ writes < MaxWrites
        /\ LET r == LogProductMovementPrepare(store, productID, newLocation,
                                              txTimestamp, 0)
           IN  /\ last' = [NoCall EXCEPT
                             !.op = "beginAppend", !.id = productID,
                             !.location = newLocation,
                             !.timestamp = txTimestamp, !.err = r.err]
               /\ pending' = IF r.err = OK
                             THEN [pending EXCEPT ![c] =
                                     [active |-> TRUE, id |-> productID,
                                      location |-> newLocation,
                                      state |-> r.state,
                                      historyKey |-> r.historyKey,
                                      existingHistoryBytes |->
                                          r.existingHistoryBytes,
                                      updatedHistoryBytes |->
                                          r.updatedHistoryBytes]]
                             ELSE pending
        /\ UNCHANGED <<store, conv, assigned, idLost, fresh, moves, writes,
                       registered, wasTransit>>

CommitAppend ==
    \E c \in Callers, fault \in {0, 3} :
        /\ pending[c].active
        /\ LET q == pending[c]
               r == LogProductMovementWrite(store, q.historyKey,
                                            q.existingHistoryBytes,
                                            q.updatedHistoryBytes, fault)
           IN  /\ store' = r.store
               /\ last' = [NoCall EXCEPT
                             !.op = "appendMovement", !.id = q.id,
                             !.location = q.location,
                             !.fault = fault, !.err = r.err]
               /\ moves' = IF r.err = OK
                           THEN [moves EXCEPT ![q.id] =
                                    Append(@, [location |-> q.location,
                                               state |-> q.state])]
                           ELSE moves
               /\ writes' = IF r.store # store THEN writes + 1 ELSE writes
               /\ wasTransit' = wasTransit \cup InTransit(r.store)
               /\ pending' = [pending EXCEPT ![c] = NoPending]
        /\ UNCHANGED <<conv, assigned, idLost, fresh, registered>>

NextInterleaved == Register \/ BeginAppend \/ CommitAppend

SpecInterleaved == Init /\ [][NextInterleaved]_vars

\* The two steps run back to back are the handler itself.
PrepareThenWrite(s, productID, newLocation, txTimestamp, fault) ==
    LET q == LogProductMovementPrepare(s, productID, newLocation, txTimestamp,
                                       fault)
    IN  IF q.err # OK THEN [err |-> q.err, store |-> s]
        ELSE LogProductMovementWrite(s, q.historyKey, q.existingHistoryBytes,
                                     q.updatedHistoryBytes, fault)

SplitIsTheHandler ==
    \A productID \in ProductIDs, newLocation \in Locations,
       txTimestamp \in TxTimestamps, fault \in 0 .. 3 :
        PrepareThenWrite(store, productID, newLocation, txTimestamp, fault)
            = LogProductMovement(store, productID, newLocation, txTimestamp,
                                 fault)

\* ------------------------------------------------ a ledger already in use
\* Bytes under a history key that are not a JSON array of entries: not JSON
\* at all, a JSON object, a JSON number.
MalformedHistories ==
    {[enc |-> "opaque", doc |-> 0],
     [enc |-> "json", doc |-> [t |-> "object", v |-> 0]],
     [enc |-> "json", doc |-> [t |-> "number", v |-> 7]]}

StoredInput == [name |-> "Widget", description |-> "blue",
                manufactureDate |-> 20240101, batchNumber |-> "B-7"]

StoredProduct(state) ==
    [ID |-> 1, Name |-> StoredInput.name,
     Description |-> StoredInput.description,
     ManufactureDate |-> StoredInput.manufactureDate,
     BatchNumber |-> StoredInput.batchNumber, State |-> state]

StoredEntry == [Timestamp |-> 1700000000, Action |-> "Movement",
                Location |-> "Warehouse A", State |-> PRODUCT_REGISTERED]

\* The ledger holds record 1 and, under its history key, bytes these
\* handlers did not necessarily write (the chaincode reads whatever the
\* ledger holds under its keys); two more writes are explored from there.
InitStored ==
    /\ conv \in {"json", "opaque"}
    /\ \E state \in {PRODUCT_REGISTERED, PRODUCT_TRANSIT},
          h \in MalformedHistories \cup {NilBytes, MarshalHistories(<<StoredEntry>>)} :
          /\ store =
               [k \in {CounterKey, ProductKey(1)}
                      \cup (IF h = NilBytes THEN {} ELSE {HistoryKey(1)}) |->
                   IF k = CounterKey
                   THEN [enc |-> "json", doc |-> [t |-> "number", v |-> 1]]
                   ELSE IF k = ProductKey(1)
                   THEN MarshalProduct(StoredProduct(state))
                   ELSE h]
          /\ fresh = IF state = PRODUCT_REGISTERED THEN {1} ELSE {}
          /\ wasTransit = IF state = PRODUCT_TRANSIT THEN {1} ELSE {}
          /\ moves = [i \in ProductIDs |->
                        IF i = 1 /\ h = MarshalHistories(<<StoredEntry>>)
                        THEN <<[location |-> StoredEntry.Location,
                                state |-> StoredEntry.State]>>
                        ELSE << >>]
    /\ last = NoCall
    /\ assigned = <<1>>
    /\ idLost = FALSE
    /\ writes = MaxWrites - 2
    /\ registered = [i \in 1 .. (MaxProducts + 1) |->
                        IF i = 1 THEN StoredInput ELSE NoInput]
    /\ pending = [c \in Callers |-> NoPending]

SpecStored == InitStored /\ [][Next]_vars

\* ------------------------------------------------------------ properties
\* What getRecord(productID) returns on a store whose reads succeed.
Stored(s, productID) == RetrieveProductDetails(s, productID, FALSE)

\* C1: a transition of a record whose stored state is REGISTERED to any
\* target other than TRANSIT (REGISTERED and SOLD included) fails with
\* InvalidTransitionError and leaves the whole store, hence the record and
\* its state, as it was (the store's read succeeding).
C1_RegisteredOnlyToTransit ==
    [][(/\ last'.op = "transition"
        /\ last'.fault = 0
        /\ Stored(store, last'.id).err = OK
        /\ Stored(store, last'.id).product.State = PRODUCT_REGISTERED
        /\ last'.target # PRODUCT_TRANSIT)
       => (/\ last'.err = InvalidTransitionError
           /\ store' = store
           /\ Stored(store', last'.id) = Stored(store, last'.id))]_vars

C1_Witness ==
    /\ last.op = "transition"
    /\ last.fault = 0
    /\ last.target = PRODUCT_SOLD
    /\ last.err = InvalidTransitionError
    /\ Stored(store, last.id).err = OK
    /\ Stored(store, last.id).product.State = PRODUCT_REGISTERED

\* C2: a transition of an existing record whose state is not REGISTERED
\* succeeds for every target of the enumeration, and a getRecord issued
\* afterwards returns the target state (the store's calls succeeding).
C2_NonRegisteredAcceptsAny ==
    [][(/\ last'.op = "transition"
        /\ last'.fault = 0
        /\ Stored(store, last'.id).err = OK
        /\ Stored(store, last'.id).product.State # PRODUCT_REGISTERED)
       => (/\ last'.err = OK
           /\ Stored(store', last'.id).err = OK
           /\ Stored(store', last'.id).product.State = last'.target)]_vars

C2_Witness ==
    /\ last.op = "transition"
    /\ last.fault = 0
    /\ last.err = OK
    /\ last.target = PRODUCT_REGISTERED
    /\ Stored(store, last.id).product.State = PRODUCT_REGISTERED

\* C3: a transition to TRANSIT of a record that was registered and has had
\* no transition since succeeds, and a getRecord issued afterwards returns
\* state TRANSIT.
C3_FreshToTransit ==
    [][(/\ last'.op = "transition"
        /\ last'.fault = 0
        /\ last'.id \in fresh
        /\ last'.target = PRODUCT_TRANSIT)
       => (/\ last'.err = OK
           /\ Stored(store', last'.id).err = OK
           /\ Stored(store', last'.id).product.State = PRODUCT_TRANSIT)]_vars

\* s is a prefix of t.
IsPrefix(s, t) ==
    /\ Len(s) <= Len(t)
    /\ \A i \in 1 .. Len(s) : s[i] = t[i]

\* The ids that have a record key in the store.
RecordIds(s) == {i \in 1 .. (MaxProducts + 1) : ProductKey(i) \in DOMAIN s}

\* C4: the successful appendMovement calls on an id, in call order, are
\* exactly its stored history: as many entries as calls, the i-th entry
\* carrying the location of the i-th call and the record's stored state at
\* the moment of that call.
C4_HistoryInCallOrder ==
    \A id \in ProductIDs :
        /\ Len(History(store, id)) = Len(moves[id])
        /\ \A i \in 1 .. Len(moves[id]) :
              /\ History(store, id)[i].Location = moves[id][i].location
              /\ History(store, id)[i].State = moves[id][i].state

C4_Witness ==
    \E id \in ProductIDs :
        /\ Len(moves[id]) >= 2
        /\ moves[id][1].state # moves[id][2].state
        /\ moves[id][1].location # moves[id][2].location
        /\ Len(History(store, id)) = Len(moves[id])

\* C5: the history of every id is append-only: in every step the history
\* stored before the step is a prefix of the history stored after it.
C5_AppendOnly ==
    [][\A id \in ProductIDs :
          IsPrefix(History(store, id), History(store', id))]_vars

C5_Witness ==
    /\ last.op = "appendMovement"
    /\ last.err = OK
    /\ Len(History(store, last.id)) >= 2

\* C6: starting from an absent counter, as long as no register call has
\* failed after advancing the counter, the ids assigned by the successful
\* register calls are 1, 2, 3, ... in call order (each one greater than the
\* previous, pairwise distinct), and these are the ids that have a record.
C6_SequentialIds ==
    ~idLost =>
        /\ \A i \in 1 .. Len(assigned) : assigned[i] = i
        /\ RecordIds(store) = 1 .. Len(assigned)

C6_Witness ==
    /\ ~idLost
    /\ Len(assigned) >= 2
    /\ last.op = "register"
    /\ last.id = Len(assigned)

\* C7: every successful register call, whatever calls ran before it, is
\* assigned an id no earlier call was assigned and creates a record key that
\* did not exist: it overwrites nothing, and every other key keeps its value.
C7_UniqueIds ==
    [][(last'.op = "register" /\ last'.err = OK)
       => (/\ \A i \in 1 .. Len(assigned) : assigned[i] # last'.id
           /\ ProductKey(last'.id) \notin DOMAIN store
           /\ ProductKey(last'.id) \in DOMAIN store'
           /\ \A k \in DOMAIN store :
                 k # CounterKey => (k \in DOMAIN store' /\ store'[k] = store[k]))
      ]_vars

C7_Witness ==
    /\ last.op = "register"
    /\ last.err = OK
    /\ idLost
    /\ last.id = 2
    /\ RecordIds(store) = {2}

\* C8: with every operation one indivisible step, the history of an id
\* grows by exactly one entry in a successful appendMovement on that id and
\* keeps its length in every other step: no appended entry is lost.
C8_OneEntryPerAppend ==
    [][\A id \in ProductIDs :
          Len(History(store', id)) =
             Len(History(store, id))
             + (IF last'.op = "appendMovement" /\ last'.err = OK
                   /\ last'.id = id THEN 1 ELSE 0)]_vars

C8_Witness ==
    /\ last.op = "appendMovement"
    /\ last.err = OK
    /\ Stored(store, last.id).product.State = PRODUCT_TRANSIT
    /\ Len(moves[last.id]) = 2
    /\ Len(History(store, last.id)) = 2
    /\ moves[last.id][1].state = PRODUCT_TRANSIT

\* C9: a register followed immediately by getRecord of the id it assigned
\* succeeds and returns state REGISTERED, that id, and the name,
\* description, manufactureDate and batchNumber supplied.
C9_RegisterThenGet ==
    [][(last'.op = "register" /\ last'.err = OK)
       => (/\ Stored(store', last'.id).err = OK
           /\ Stored(store', last'.id).product =
                 [ID |-> last'.id,
                  Name |-> last'.input.name,
                  Description |-> last'.input.description,
                  ManufactureDate |-> last'.input.manufactureDate,
                  BatchNumber |-> last'.input.batchNumber,
                  State |-> PRODUCT_REGISTERED])]_vars

\* C10: appendMovement on an id that has no stored record fails with
\* NotFoundError and writes nothing: no key is created or changed, so the
\* history key stays absent (the store's read succeeding).
C10_AppendUnknownId ==
    [][(/\ last'.op = "appendMovement"
        /\ last'.fault = 0
        /\ ProductKey(last'.id) \notin DOMAIN store)
       => (/\ last'.err = NotFoundError
           /\ store' = store
           /\ (HistoryKey(last'.id) \notin DOMAIN store
                  => HistoryKey(last'.id) \notin DOMAIN store'))]_vars

C10_Witness ==
    /\ last.op = "appendMovement"
    /\ last.fault = 0
    /\ last.err = NotFoundError
    /\ ProductKey(last.id) \notin DOMAIN store
    /\ HistoryKey(last.id) \notin DOMAIN store
    /\ RecordIds(store) # {}

\* C11: appendMovement on an existing record whose history key holds
\* malformed bytes fails with DecodeError and leaves the store, hence the
\* history key, unchanged: the bytes are not taken for an empty sequence
\* and not overwritten (the store's reads succeeding).
C11_MalformedHistoryFails ==
    [][(/\ last'.op = "appendMovement"
        /\ last'.fault = 0
        /\ Stored(store, last'.id).err = OK
        /\ HistoryKey(last'.id) \in DOMAIN store
        /\ store[HistoryKey(last'.id)] \in MalformedHistories)
       => (/\ last'.err = DecodeError
           /\ store' = store
           /\ store'[HistoryKey(last'.id)] \in MalformedHistories)]_vars

C11_Witness ==
    /\ last.op = "appendMovement"
    /\ last.fault = 0
    /\ last.err = DecodeError
    /\ Stored(store, last.id).err = OK
    /\ HistoryKey(last.id) \in DOMAIN store
    /\ store[HistoryKey(last.id)] \in MalformedHistories

\* C12: a successful transition writes the record key of its id and nothing
\* else: every other key, so every history sequence and the identity
\* counter, is as before, and no key appears.
C12_TransitionWritesRecordOnly ==
    [][(last'.op = "transition" /\ last'.err = OK)
       => (/\ DOMAIN store' = DOMAIN store
           /\ \A k \in DOMAIN store :
                 k # ProductKey(last'.id) => store'[k] = store[k]
           /\ \A id \in ProductIDs :
                 History(store', id) = History(store, id)
           /\ Counter(store') = Counter(store))]_vars

C12_Witness ==
    /\ last.op = "transition"
    /\ last.err = OK
    /\ Len(History(store, last.id)) >= 1
    /\ Stored(store, last.id).product.State = last.target

\* C13: whenever getRecord(id) returns a record, its id is the id asked for
\* and its name, description, manufactureDate and batchNumber are the
\* values written at registration; only the state can differ.
C13_FieldsImmutable ==
    \A id \in ProductIDs :
        Stored(store, id).err = OK =>
            /\ Stored(store, id).product.ID = id
            /\ Stored(store, id).product.Name = registered[id].name
            /\ Stored(store, id).product.Description =
                  registered[id].description
            /\ Stored(store, id).product.ManufactureDate =
                  registered[id].manufactureDate
            /\ Stored(store, id).product.BatchNumber =
                  registered[id].batchNumber

C13_Witness ==
    \E id \in ProductIDs :
        /\ Stored(store, id).err = OK
        /\ Stored(store, id).product.State = PRODUCT_SOLD
        /\ Stored(store, id).product.Name = "Widget"
        /\ registered[id].name = "Widget"
        /\ Len(moves[id]) >= 1

\* C14: once register has written a record for an id, getRecord(id)
\* succeeds in every later state.
C14_AlwaysRetrievable ==
    \A i \in 1 .. Len(assigned) : Stored(store, assigned[i]).err = OK

\* C15: the state of every stored record and of every stored history entry
\* is one of the ten values of the ProductState enumeration.
C15_StatesInEnumeration ==
    \A id \in ProductIDs :
        /\ Stored(store, id).err = OK
              => Stored(store, id).product.State \in ProductState
        /\ \A i \in 1 .. Len(History(store, id)) :
              History(store, id)[i].State \in ProductState

\* C16: getRecord of an id that has no stored record fails with
\* NotFoundError, whatever was done before (the store's read succeeding).
C16_GetUnknownId ==
    [][(/\ last'.op = "getRecord"
        /\ last'.fault = 0
        /\ ProductKey(last'.id) \notin DOMAIN store)
       => last'.err = NotFoundError]_vars

C16_Witness ==
    /\ last.op = "getRecord"
    /\ last.fault = 0
    /\ last.err = NotFoundError
    /\ ProductKey(last.id) \notin DOMAIN store
    /\ \E id \in ProductIDs :
          Stored(store, id).err = OK /\ Len(History(store, id)) >= 1

C18_NoConcurrencyCheck ==
    [][\A c \in Callers :
          (pending[c].active /\ ~pending'[c].active /\ last'.fault = 0)
          => (/\ last'.err = OK
              /\ pending[c].historyKey \in DOMAIN store'
              /\ store'[pending[c].historyKey] =
                    pending[c].updatedHistoryBytes
              /\ Len(History(store', pending[c].id)) =
                    1 + (IF pending[c].existingHistoryBytes = NilBytes THEN 0
                         ELSE Len(UnmarshalHistories(
                                 pending[c].existingHistoryBytes
                              ).productHistories)))]_vars

C18_LostUpdate ==
    \E id \in ProductIDs :
        /\ Len(moves[id]) = 2
        /\ moves[id][1].location # moves[id][2].location
        /\ Len(History(store, id)) = 1
        /\ \A c \in Callers : ~pending[c].active

C20_FirstTransitionIsTransit ==
    [][/\ \A id \in ProductIDs :
             (/\ Stored(store', id).err = OK
              /\ Stored(store', id).product.State
                    \notin {PRODUCT_REGISTERED, PRODUCT_TRANSIT})
             => id \in wasTransit'
       /\ (last'.op = "transition" /\ last'.err = OK /\ last'.id \in fresh)
             => last'.target = PRODUCT_TRANSIT
       /\ \A id \in ProductIDs :
             (/\ Stored(store, id).err = OK
              /\ Stored(store, id).product.State # PRODUCT_REGISTERED
              /\ Stored(store', id).err = OK
              /\ Stored(store', id).product.State = PRODUCT_REGISTERED)
             => (/\ last'.op = "transition"
                 /\ last'.err = OK
                 /\ last'.id = id
                 /\ last'.target = PRODUCT_REGISTERED)]_vars

C20_Witness ==
    \E id \in ProductIDs :
        /\ Stored(store, id).err = OK
        /\ Stored(store, id).product.State = PRODUCT_REGISTERED
        /\ id \notin fresh
        /\ id \in wasTransit
        /\ last.op = "transition"
        /\ last.target = PRODUCT_REGISTERED

====
